---- MODULE Spec2Model ----
(***************************************************************************)
(* certmagic-vault-storage: a certmagic.Storage that keeps keys in a       *)
(* HashiCorp Vault kv-v2 secrets engine.  The adapter (Storage, its path   *)
(* formatter and its token lookup) is modelled from the Go source; the     *)
(* Vault server it talks to is modelled from its HTTP interface.           *)
(*                                                                         *)
(* Strings the code takes apart (keys, prefixes, paths) are sequences of   *)
(* symbols: "/" is the path separator, ".lock" the lock suffix, "A" an     *)
(* upper-case letter whose lower case is "a", every other symbol a run of  *)
(* lower-case characters.                                                  *)
(***************************************************************************)
EXTENDS Integers, Sequences, FiniteSets, TLC

VARIABLES
    vault,                   \* the backend: secret path -> latest version
    now,                     \* the wall clock, in ticks
    Token,                   \* StorageConfig.Token, the static token ("" = none)
    approleResponse,         \* Storage.approleResponse (None or the login result)
    approleTokenExpiration,  \* Storage.approleTokenExpiration (None or an instant)
    issued,                  \* the backend's live approle tokens
    logins,                  \* how many login exchanges the backend has accepted
    header,                  \* the X-Vault-Token header of the one HTTP client
    revision,                \* which revision of Storage.List the build holds
    calls,                   \* per caller: where its Lock call stands
    last,                    \* the latest call, with its result
    written,                 \* per key string: what the calls did to it
    lastMut                  \* the latest call that changed the backend

vars == <<vault, now, Token, approleResponse, approleTokenExpiration, issued,
          logins, header, revision, calls, last, written, lastMut>>

authVars == <<Token, approleResponse, approleTokenExpiration, issued, logins, header>>

(***************************************************************************)
(* Bounds of the model.                                                    *)
(***************************************************************************)
MaxTime == 5
MaxLogins == 2

(***************************************************************************)
(* Values.  A Go nil error is Nil; a nil pointer or an omitted JSON field  *)
(* is the empty sequence None and a present one the one-element sequence   *)
(* Some(x); a nil or empty []byte is the empty sequence.                   *)
(***************************************************************************)
Nil == "nil"
None == <<>>
Some(x) == <<x>>
ZeroTime == 0
ErrNotExist == "fs.ErrNotExist"
TransportErr == "transport error"
Panic == "panic: nil pointer dereference"
StaticToken == "dead-beef"
SecretsPath == <<"secrets">>
PathPrefix == <<"certificates">>
LeaseDuration == 2
MaxRequests == 3
LockTimeout == 3
LockPollingInterval == 1
TokenNames == <<"s.1", "s.2", "s.3", "s.4">>

Payloads == {<<>>, <<1>>, <<2, 2>>}
NoKeyInfo == [Key |-> <<>>, IsTerminal |-> FALSE, Size |-> 0, Modified |-> ZeroTime]

\* What the backend answers besides its normal processing of a request: a
\* request that never gets an answer, and an error status other than 404 whose
\* body lists no error string, or one.
Faults == {"ok", "transport", "err0", "err1"}
FaultErrors(f) == IF f = "err1" THEN <<"internal error">> ELSE <<>>

(***************************************************************************)
(* strings.ToLower, strings.HasSuffix and strings.Join.                    *)
(***************************************************************************)
ToLowerSym(c) == IF c = "A" THEN "a" ELSE c

ToLower(s) == [i \in DOMAIN s |-> ToLowerSym(s[i])]

HasSuffix(s, c) == Len(s) > 0 /\ s[Len(s)] = c

\* The order of strings byte by byte, on the symbols the model uses.
Symbols == <<".lock", "/", "A", "a", "b", "d", "e", "f", "x", "y">>

Rank(c) == CHOOSE i \in 1..Len(Symbols) : Symbols[i] = c

LexLess(s, t) ==
    \E i \in 1..(Len(s) + 1) :
        /\ i <= Len(t)
        /\ \A j \in 1..(i - 1) : s[j] = t[j]
        /\ i = Len(s) + 1 \/ Rank(s[i]) < Rank(t[i])

RECURSIVE SortSet(_)
SortSet(S) ==
    IF S = {} THEN <<>>
    ELSE LET m == CHOOSE x \in S : \A y \in S \ {x} : LexLess(x, y)
         IN <<m>> \o SortSet(S \ {m})

HasPrefix(s, pre) == Len(pre) <= Len(s) /\ SubSeq(s, 1, Len(pre)) = pre

RECURSIVE Join(_)
Join(errs) ==
    IF Len(errs) = 0 THEN ""
    ELSE IF Len(errs) = 1 THEN errs[1]
    ELSE errs[1] \o "; " \o Join(Tail(errs))

(***************************************************************************)
(* secret.go: the path formatter.  Both formats lower-case the whole       *)
(* formatted path, the key included.                                       *)
(***************************************************************************)
FormatString(ns, secrets, prefix, key) ==
    ToLower(secrets \o <<"/", ns, "/">> \o prefix \o <<"/">> \o key)

vaultDataPath(key) == FormatString("data", SecretsPath, PathPrefix, key)

vaultMetadataPath(key) == FormatString("metadata", SecretsPath, PathPrefix, key)

LockKeyIsKey(key) == key

LockKey(key) == key \o <<".lock">>

\* json.Marshal of certMagicCertificateSecret: `data` is omitted when the bytes
\* are empty, `lock` when the pointer is nil; and what Unmarshal gives back.
EncodeSecret(data, lock) ==
    [data |-> IF Len(data) = 0 THEN None ELSE Some(data), lock |-> lock]

DecodeData(secret) == IF secret.data = None THEN <<>> ELSE secret.data[1]

DecodeLock(secret) == secret.lock

(***************************************************************************)
(* auth.go: errorResponse.Error, Storage.getToken, Storage.login.          *)
(***************************************************************************)
ErrorOf(errs) == IF Len(errs) > 0 THEN Join(errs) ELSE Nil

approleTokenExpiredEarly(resp, exp, t) ==
    IF resp # None /\ exp # None THEN t >= exp[1] ELSE TRUE

approleTokenExpired(resp, exp, t) ==
    IF resp # None /\ exp # None THEN t > exp[1] ELSE TRUE

\* The login exchange: outcome is what the backend does with it, tok the token
\* it would issue.  Returns the error and the credential fields afterwards.
login(resp, exp, t, outcome, tok) ==
    IF outcome = "transport"
        THEN [err |-> TransportErr, resp |-> resp, exp |-> exp, tok |-> None]
    ELSE IF outcome # "ok"
        THEN [err |-> ErrorOf(FaultErrors(outcome)), resp |-> resp, exp |-> exp,
              tok |-> None]
    ELSE [err |-> Nil,
          resp |-> Some([ClientToken |-> tok, LeaseDuration |-> LeaseDuration]),
          exp |-> Some(t + LeaseDuration), tok |-> Some(tok)]

getTokenCachedForever(static, resp, exp, t, outcome, tok) ==
    IF static # ""
        THEN [token |-> static, resp |-> resp, exp |-> exp, sent |-> FALSE, tok |-> None]
    ELSE IF resp # None
        THEN [token |-> resp[1].ClientToken, resp |-> resp, exp |-> exp,
              sent |-> FALSE, tok |-> None]
    ELSE LET l == login(resp, exp, t, outcome, tok) IN
        IF l.err # Nil
            THEN [token |-> "", resp |-> l.resp, exp |-> l.exp, sent |-> TRUE,
                  tok |-> None]
        ELSE IF l.resp = None
            THEN [token |-> Panic, resp |-> l.resp, exp |-> l.exp, sent |-> TRUE,
                  tok |-> None]
        ELSE [token |-> l.resp[1].ClientToken, resp |-> l.resp, exp |-> l.exp,
              sent |-> TRUE, tok |-> l.tok]

getTokenByLogin(static, resp, exp, t, outcome, tok) ==
    IF resp # None /\ ~approleTokenExpired(resp, exp, t)
        THEN [token |-> resp[1].ClientToken, resp |-> resp, exp |-> exp,
              sent |-> FALSE, tok |-> None]
    ELSE LET l == login(resp, exp, t, outcome, tok) IN
        IF l.err # Nil
            THEN [token |-> static, resp |-> l.resp, exp |-> l.exp, sent |-> TRUE,
                  tok |-> None]
        ELSE [token |-> l.resp[1].ClientToken, resp |-> l.resp, exp |-> l.exp,
              sent |-> TRUE, tok |-> l.tok]

\* getToken: the token it returns, the credential fields it leaves, whether a
\* login exchange was sent and the token the backend issued (None if none).
\* After a login that returned nil it reads the token of approleResponse: a
\* nil pointer, and a panic, when the login cached nothing and nothing was
\* cached before.
getToken(static, resp, exp, t, outcome, tok) ==
    IF static # ""
        THEN [token |-> static, resp |-> resp, exp |-> exp, sent |-> FALSE, tok |-> None]
    ELSE IF resp # None /\ ~approleTokenExpired(resp, exp, t)
        THEN [token |-> resp[1].ClientToken, resp |-> resp, exp |-> exp,
              sent |-> FALSE, tok |-> None]
    ELSE LET l == login(resp, exp, t, outcome, tok) IN
        IF l.err # Nil
            THEN [token |-> "", resp |-> l.resp, exp |-> l.exp, sent |-> TRUE,
                  tok |-> None]
        ELSE IF l.resp = None
            THEN [token |-> Panic, resp |-> l.resp, exp |-> l.exp, sent |-> TRUE,
                  tok |-> None]
        ELSE [token |-> l.resp[1].ClientToken, resp |-> l.resp, exp |-> l.exp,
              sent |-> TRUE, tok |-> l.tok]

(***************************************************************************)
(* The backend (Vault kv-v2 behind its HTTP API).  A request names a path  *)
(* <mount>/<data|metadata>/<secret path>; a response is what resty hands   *)
(* back: a transport error or a status, with the decoded body.             *)
(***************************************************************************)
SecretName(path) == SubSeq(path, 5, Len(path))

Routed(path, ns) == Len(path) >= 4 /\ path[1] = SecretsPath[1] /\ path[3] = ns

\* The tokens the backend takes: the static one, those it issued that have
\* not expired, and the one it issues to the login that precedes the request.
TokenValid(tok) ==
    \/ tok = StaticToken
    \/ \E i \in issued : i.token = tok /\ now <= i.expires
    \/ tok = TokenNames[logins + 1]

NoSecret == [data |-> None, lock |-> None]

Response(err, status, secret, created, keys, errors) ==
    [err |-> err, status |-> status, secret |-> secret, created |-> created,
     destroyed |-> FALSE, keys |-> keys, errors |-> errors]

Refused(tok, f) ==
    IF f = "transport" THEN Some(Response(TransportErr, 0, NoSecret, ZeroTime, <<>>, <<>>))
    ELSE IF ~TokenValid(tok)
        THEN Some(Response(Nil, 403, NoSecret, ZeroTime, <<>>, <<"permission denied">>))
    ELSE IF f # "ok"
        THEN Some(Response(Nil, 500, NoSecret, ZeroTime, <<>>, FaultErrors(f)))
    ELSE None

NotFound == Response(Nil, 404, NoSecret, ZeroTime, <<>>, <<>>)

\* GET <mount>/data/<path>
BackendGet(tok, path, f) ==
    IF Refused(tok, f) # None THEN Refused(tok, f)[1]
    ELSE IF ~Routed(path, "data") \/ SecretName(path) \notin DOMAIN vault THEN NotFound
    ELSE LET s == vault[SecretName(path)] IN
        [Response(Nil, 200, s.secret, s.created_time, <<>>, <<>>)
            EXCEPT !.destroyed = s.destroyed]

\* POST <mount>/data/<path>: a new latest version, stamped with the time
BackendPost(tok, path, secret, f) ==
    IF Refused(tok, f) # None THEN [resp |-> Refused(tok, f)[1], vault |-> vault]
    ELSE IF ~Routed(path, "data") THEN [resp |-> NotFound, vault |-> vault]
    ELSE LET n == SecretName(path)
             v == [secret |-> secret, created_time |-> now, destroyed |-> FALSE]
         IN [resp |-> Response(Nil, 200, NoSecret, ZeroTime, <<>>, <<>>),
             vault |-> [x \in DOMAIN vault \cup {n} |-> IF x = n THEN v ELSE vault[x]]]

\* DELETE <mount>/metadata/<path>: the secret and all its versions go
BackendDelete(tok, path, f) ==
    IF Refused(tok, f) # None THEN [resp |-> Refused(tok, f)[1], vault |-> vault]
    ELSE IF ~Routed(path, "metadata") \/ SecretName(path) \notin DOMAIN vault
        THEN [resp |-> NotFound, vault |-> vault]
    ELSE [resp |-> Response(Nil, 204, NoSecret, ZeroTime, <<>>, <<>>),
          vault |-> [x \in DOMAIN vault \ {SecretName(path)} |-> vault[x]]]

\* What a name below the directory dir is listed as: its first segment, with
\* the separator when more segments follow.
EntryOf(dir, name) ==
    LET rest == SubSeq(name, Len(dir) + 1, Len(name))
        seps == {i \in 1..Len(rest) : rest[i] = "/"}
    IN IF seps = {} THEN rest
       ELSE SubSeq(rest, 1, CHOOSE i \in seps : \A j \in seps : i <= j)

ListDir(path) ==
    IF HasSuffix(SecretName(path), "/") THEN SecretName(path)
    ELSE SecretName(path) \o <<"/">>

DirEntries(dir) ==
    SortSet({EntryOf(dir, n) :
                n \in {x \in DOMAIN vault : HasPrefix(x, dir) /\ Len(x) > Len(dir)}})

ListedKeys(path) == DirEntries(ListDir(path))

\* LIST <mount>/metadata/<path>: the names one level below the path, sorted
BackendList(tok, path, f) ==
    IF Refused(tok, f) # None THEN Refused(tok, f)[1]
    ELSE IF ~Routed(path, "metadata") \/ ListedKeys(path) = <<>> THEN NotFound
    ELSE Response(Nil, 200, NoSecret, ZeroTime, ListedKeys(path), <<>>)

IsError(resp) == resp.status > 399

\* POST <logout path>: the backend revokes the token the request carries.
BackendRevoke(tok, f) ==
    IF Refused(tok, f) # None THEN Refused(tok, f)[1]
    ELSE Response(Nil, 204, NoSecret, ZeroTime, <<>>, <<>>)

\* Storage.logout: its error, the credential fields it leaves, the token
\* lookup it made (sent, tok as in getToken), the number of revoke requests it
\* sent and whether the backend revoked the token.
logout(static, resp, exp, t, outcome, tok, f) ==
    IF resp = None
        THEN [err |-> Nil, resp |-> resp, exp |-> exp, token |-> "", sent |-> FALSE,
              tok |-> None, requests |-> 0, revoked |-> FALSE]
    ELSE LET g == getToken(static, resp, exp, t, outcome, tok)
             r == BackendRevoke(g.token, f)
         IN IF r.err # Nil
                THEN [err |-> r.err, resp |-> g.resp, exp |-> g.exp, token |-> g.token,
                      sent |-> g.sent, tok |-> g.tok, requests |-> 1, revoked |-> FALSE]
            ELSE IF IsError(r)
                THEN [err |-> ErrorOf(r.errors), resp |-> g.resp, exp |-> g.exp,
                      token |-> g.token, sent |-> g.sent, tok |-> g.tok,
                      requests |-> 1, revoked |-> FALSE]
            ELSE [err |-> Nil, resp |-> None, exp |-> None, token |-> g.token,
                  sent |-> g.sent, tok |-> g.tok, requests |-> 1, revoked |-> TRUE]

(***************************************************************************)
(* Storage.Store, Load, Delete, Exists, Stat: what each makes of the       *)
(* backend's response.                                                     *)
(***************************************************************************)
StoreResult(resp) ==
    IF resp.err # Nil THEN resp.err
    ELSE IF IsError(resp) THEN ErrorOf(resp.errors)
    ELSE Nil

LoadResult(resp) ==
    IF resp.err # Nil THEN [bytes |-> <<>>, err |-> resp.err]
    ELSE IF IsError(resp) /\ resp.status = 404 THEN [bytes |-> <<>>, err |-> ErrNotExist]
    ELSE [bytes |-> DecodeData(resp.secret), err |-> Nil]

DeleteResult(resp) ==
    IF resp.err # Nil THEN resp.err
    ELSE IF IsError(resp) /\ resp.status = 404 THEN ErrNotExist
    ELSE Nil

ExistsResultAnyPayload(resp) ==
    IF resp.err # Nil THEN FALSE
    ELSE IF IsError(resp) THEN FALSE
    ELSE TRUE

ExistsResult(resp) ==
    IF resp.err # Nil THEN FALSE
    ELSE IF IsError(resp) THEN FALSE
    ELSE Len(DecodeData(resp.secret)) > 0

StatResult(key, resp) ==
    IF resp.err # Nil THEN [info |-> NoKeyInfo, err |-> resp.err]
    ELSE IF IsError(resp) /\ resp.status = 404 THEN [info |-> NoKeyInfo, err |-> ErrNotExist]
    ELSE [info |-> [Key |-> key, IsTerminal |-> TRUE,
                    Size |-> Len(DecodeData(resp.secret)),
                    Modified |-> resp.created],
          err |-> Nil]


(***************************************************************************)
(* Storage.List.  The source holds two revisions of it, which differ in    *)
(* the path they compute for an entry and in the paths they keep.          *)
(***************************************************************************)
EntryPath1(prefix, entry) ==
    IF HasSuffix(prefix, "/") THEN prefix \o entry
    ELSE prefix \o <<"/">> \o entry

EntryPath2(prefix, entry) ==
    IF HasSuffix(prefix, "/") THEN prefix \o entry
    ELSE entry

EntryPath(prefix, entry) ==
    IF revision = 1 THEN EntryPath1(prefix, entry) ELSE EntryPath2(prefix, entry)

Kept1(items, path) == Append(items, path)

Kept2(items, path) == IF ~HasSuffix(path, "/") THEN Append(items, path) ELSE items

Kept(items, path) == IF revision = 1 THEN Kept1(items, path) ELSE Kept2(items, path)

ListReturnNil(items) == [list |-> items, err |-> Nil]

ListReturn(items) ==
    IF Len(items) = 0 THEN [list |-> items, err |-> ErrNotExist]
    ELSE [list |-> items, err |-> Nil]

\* ListCall is one call of List with the token tok; ListEntries is its loop,
\* with the entries still to visit and the items collected so far.  A call
\* of List sends one backend list request per level it visits: n counts the
\* requests sent so far, and the fault f strikes request number at (every
\* request when at is 0).
FaultAt(f, at, k) == IF at = 0 \/ at = k THEN f ELSE "ok"

RECURSIVE ListCall(_, _, _, _, _, _), ListEntries(_, _, _, _, _, _, _, _)
ListCall(tok, prefix, recursive, f, at, n) ==
    LET resp == BackendList(tok, vaultMetadataPath(prefix), FaultAt(f, at, n + 1)) IN
    IF resp.err # Nil THEN [list |-> <<>>, err |-> resp.err, n |-> n + 1]
    ELSE ListEntries(tok, prefix, recursive, f, at, n + 1, resp.keys, <<>>)

ListEntries(tok, prefix, recursive, f, at, n, entries, items) ==
    IF entries = <<>> THEN [list |-> ListReturn(items).list,
                            err |-> ListReturn(items).err, n |-> n]
    ELSE LET entry == Head(entries)
             path == EntryPath(prefix, entry)
         IN IF recursive /\ HasSuffix(entry, "/")
                THEN LET sub == ListCall(tok, path, recursive, f, at, n) IN
                     IF sub.err # Nil THEN [list |-> <<>>, err |-> sub.err, n |-> sub.n]
                     ELSE ListEntries(tok, prefix, recursive, f, at, sub.n, Tail(entries),
                                      Kept(items, path) \o sub.list)
            ELSE ListEntries(tok, prefix, recursive, f, at, n, Tail(entries),
                             Kept(items, path))

(***************************************************************************)
(* Storage.Lock, one backend request per step, and what Lock makes of the  *)
(* read of <key>.lock: "break" (no lock field in what it decoded),         *)
(* "stale" (the expiration is in the past) or "wait".                      *)
(***************************************************************************)
LockReadResultEager(resp, t) ==
    IF resp.err # Nil THEN [next |-> "return", err |-> resp.err]
    ELSE IF DecodeLock(resp.secret) = None THEN [next |-> "break", err |-> Nil]
    ELSE IF t >= DecodeLock(resp.secret)[1] THEN [next |-> "stale", err |-> Nil]
    ELSE [next |-> "wait", err |-> Nil]

LockReadResult(resp, t) ==
    IF resp.err # Nil THEN [next |-> "return", err |-> resp.err]
    ELSE IF DecodeLock(resp.secret) = None THEN [next |-> "break", err |-> Nil]
    ELSE IF t > DecodeLock(resp.secret)[1] THEN [next |-> "stale", err |-> Nil]
    ELSE [next |-> "wait", err |-> Nil]

LockExpirationNow(t) == t

LockExpiration(t) == t + LockTimeout

LockWriteResult(resp) ==
    IF resp.err # Nil THEN resp.err
    ELSE IF IsError(resp) THEN ErrorOf(resp.errors)
    ELSE Nil

UnlockResult(resp) ==
    IF resp.err # Nil THEN resp.err
    ELSE IF IsError(resp) /\ resp.status = 404 THEN ErrNotExist
    ELSE Nil

(***************************************************************************)
(* The state of the system.                                                *)
(***************************************************************************)
Procs == {1, 2, 3}
Keys == {<<"a">>, <<"A">>}
TreeKeys == {<<"b">>, <<"d", "/", "x">>, <<"d", "/", "e", "/", "y">>, <<"f">>}
Prefixes == {<<>>, <<"d">>, <<"d", "/">>, <<"d", "/", "e", "/">>}
\* The key strings <k>.lock, which a caller may also hand to Store and Delete.
LockKeys == {LockKey(k) : k \in Keys}
AllKeys == Keys \cup TreeKeys \cup LockKeys
\* The state the LockRecord of a key is in.
LockState(key) ==
    LET n == SecretName(vaultDataPath(LockKey(key))) IN
    IF n \notin DOMAIN vault \/ vault[n].secret.lock = None THEN "FREE"
    ELSE IF now > vault[n].secret.lock[1] THEN "HELD-EXPIRED"
    ELSE "HELD-FRESH"

(***************************************************************************)
(* History kept for the properties, none of it read by the operations.     *)
(* written[k] is what the calls made so far with the key string k did:     *)
(* to the value of k (state, value, and time, the clock of the backend     *)
(* when it took the value) and to the lock of k (lstate).  lastMut is the  *)
(* latest call that changed the backend.  last is the latest call and      *)
(* what it returned, with written[k] and lastMut as they were when it was  *)
(* made (prior, after).                                                    *)
(***************************************************************************)
NeverWritten == [state |-> "never", value |-> <<>>, time |-> ZeroTime,
                 lstate |-> "never"]
NoMut == [op |-> "none", key |-> <<>>, value |-> <<>>, first |-> "none"]
NoCred == [resp |-> None, exp |-> None]
NoCall == [proc |-> 0, op |-> "none", key |-> <<>>, value |-> <<>>, fault |-> "ok",
           err |-> Nil, bytes |-> <<>>, bool |-> FALSE, info |-> NoKeyInfo,
           list |-> <<>>, recursive |-> FALSE, polls |-> 0, slept |-> 0,
           first |-> "none", stale |-> None, seen |-> "none", ctx |-> "live",
           changed |-> FALSE, over |-> "none", prior |-> NeverWritten, after |-> NoMut,
           token |-> "", sent |-> FALSE, issued |-> None, cred |-> NoCred, at |-> 0,
           requests |-> 0, failed |-> 0, revoked |-> FALSE, looked |-> "",
           top |-> <<>>]

\* A caller's Lock call: where it stands (pc), its arguments (key, ctx, and
\* when and at which point of the call ctx was cancelled), its sleep (wake),
\* and history: 1 once it has entered the select (polls) and once it has
\* waited out a polling interval (slept), the state of the lock at its first
\* read (first), what its latest read showed (seen), the expiration it found
\* in the past (stale), the latest change of the backend before the call
\* (after), the lock the caller got from its latest successful Lock and has
\* not unlocked (got), and whether the call has written or deleted a record
\* (changed).  A thread of control that looks the token up by itself
\* (SpecThreads) is at "exchange" before the login exchange and at "assigned"
\* between the two assignments of login; logged holds the credentials its
\* logins have cached.  A thread that has set the header of the client and
\* not yet sent its request (SpecShared) is at "request", and looked is the
\* token its lookup returned.  A recursive List whose loop runs step by step
\* (SpecListers) is at "list", with the entries of its listing (top), those
\* still to visit (entries) and the items collected so far.
Idle == [pc |-> "idle", key |-> <<>>, ctx |-> "live", cancelledAt |-> 0,
         cancelledIn |-> "none",
         polls |-> 0, slept |-> 0, wake |-> 0, first |-> "none", seen |-> "none",
         stale |-> None, after |-> NoMut, got |-> None, changed |-> FALSE,
         logged |-> {}, looked |-> "", entries |-> <<>>, items |-> <<>>,
         top |-> <<>>]

NoteData(key, st, value) ==
    [written EXCEPT ![key].state = st, ![key].value = value, ![key].time = now]

NoteLock(key, st) == [written EXCEPT ![key].lstate = st]

\* The credential the adapter holds.
Cred == [resp |-> approleResponse, exp |-> approleTokenExpiration]

\* A call of p with the token lookup g: what is known of it before its result.
Called(p, op, key, f, g) ==
    [NoCall EXCEPT !.proc = p, !.op = op, !.key = key, !.fault = f,
                   !.prior = written[key], !.after = lastMut,
                   !.token = g.token, !.sent = g.sent, !.issued = g.tok,
                   !.cred = Cred, !.at = now]

\* What Lock read: the record absent, expired or fresh, or no answer to go by.
SeenBy(resp, t) ==
    IF resp.err # Nil \/ (IsError(resp) /\ resp.status # 404) THEN "error"
    ELSE IF resp.secret.lock = None THEN "absent"
    ELSE IF t > resp.secret.lock[1] THEN "expired"
    ELSE "fresh"

\* The call of p is over: only what the caller holds stays.
Done(p, got) == [calls EXCEPT ![p] = [Idle EXCEPT !.got = got, !.logged = calls[p].logged]]

TypeOK ==
    /\ now \in Nat \ {0}
    /\ logins \in 0..MaxLogins
    /\ revision \in {1, 2}
    /\ \A p \in Procs : calls[p].pc \in {"idle", "read", "unlock", "wait", "write",
                                        "exchange", "assigned", "request",
                                        "list"}

InitCommon ==
    /\ vault = <<>>
    /\ now = 1
    /\ approleResponse = None
    /\ approleTokenExpiration = None
    /\ issued = {}
    /\ logins = 0
    /\ header = ""
    /\ calls = [p \in Procs |-> Idle]
    /\ last = NoCall
    /\ written = [k \in AllKeys |-> NeverWritten]
    /\ lastMut = NoMut

Init == InitCommon /\ Token = StaticToken /\ revision = 2

(***************************************************************************)
(* The token lookup every request starts with, and its effect.             *)
(***************************************************************************)
GetTok(lo) ==
    getToken(Token, approleResponse, approleTokenExpiration, now, lo,
             TokenNames[logins + 1])

\* The effect of s.client.SetToken(s.getToken()) with the lookup g, on the
\* session and on the header of the client; a lookup that panics ends the
\* program, and the operation takes no step.
Auth(g) ==
    /\ g.token # Panic
    /\ g.tok # None => logins < MaxLogins
    /\ approleResponse' = g.resp
    /\ approleTokenExpiration' = g.exp
    /\ issued' = IF g.tok = None THEN issued
                 ELSE issued \cup {[token |-> g.tok[1], expires |-> now + LeaseDuration]}
    /\ logins' = IF g.tok = None THEN logins ELSE logins + 1
    /\ header' = g.token
    /\ UNCHANGED Token

Accepted(resp) == resp.err = Nil /\ ~IsError(resp)

(***************************************************************************)
(* The operations of certmagic.Storage.                                    *)
(***************************************************************************)
Store(p, key, value, f, lo) ==
    /\ calls[p].pc = "idle"
    /\ LET g == GetTok(lo)
           r == BackendPost(g.token, vaultDataPath(key), EncodeSecret(value, None), f)
       IN /\ Auth(g)
          /\ vault' = r.vault
          /\ last' = [Called(p, "Store", key, f, g) EXCEPT !.value = value,
                                                         !.err = StoreResult(r.resp)]
          /\ IF Accepted(r.resp)
                THEN /\ written' = NoteData(key, "stored", value)
                     /\ lastMut' = [NoMut EXCEPT !.op = "Store", !.key = key, !.value = value]
                ELSE UNCHANGED <<written, lastMut>>
    /\ UNCHANGED <<now, revision, calls>>

Load(p, key, f, lo) ==
    /\ calls[p].pc = "idle"
    /\ LET g == GetTok(lo)
           r == LoadResult(BackendGet(g.token, vaultDataPath(key), f))
       IN /\ Auth(g)
          /\ last' = [Called(p, "Load", key, f, g) EXCEPT !.err = r.err, !.bytes = r.bytes]
    /\ UNCHANGED <<vault, now, revision, calls, written, lastMut>>

Delete(p, key, f, lo) ==
    /\ calls[p].pc = "idle"
    /\ LET g == GetTok(lo)
           r == BackendDelete(g.token, vaultMetadataPath(key), f)
       IN /\ Auth(g)
          /\ vault' = r.vault
          /\ last' = [Called(p, "Delete", key, f, g) EXCEPT !.err = DeleteResult(r.resp)]
          /\ IF Accepted(r.resp)
                THEN /\ written' = NoteData(key, "deleted", <<>>)
                     /\ lastMut' = [NoMut EXCEPT !.op = "Delete", !.key = key]
                ELSE UNCHANGED <<written, lastMut>>
    /\ UNCHANGED <<now, revision, calls>>

Exists(p, key, f, lo) ==
    /\ calls[p].pc = "idle"
    /\ LET g == GetTok(lo)
           r == ExistsResult(BackendGet(g.token, vaultDataPath(key), f))
       IN /\ Auth(g)
          /\ last' = [Called(p, "Exists", key, f, g) EXCEPT !.bool = r]
    /\ UNCHANGED <<vault, now, revision, calls, written, lastMut>>

Stat(p, key, f, lo) ==
    /\ calls[p].pc = "idle"
    /\ LET g == GetTok(lo)
           r == StatResult(key, BackendGet(g.token, vaultDataPath(key), f))
       IN /\ Auth(g)
          /\ last' = [Called(p, "Stat", key, f, g) EXCEPT !.err = r.err, !.info = r.info]
    /\ UNCHANGED <<vault, now, revision, calls, written, lastMut>>

List(p, prefix, recursive, f, at, lo) ==
    /\ calls[p].pc = "idle"
    /\ LET g == GetTok(lo)
           r == ListCall(g.token, prefix, recursive, f, at, 0)
       IN /\ Auth(g)
          /\ last' = [NoCall EXCEPT !.proc = p, !.op = "List", !.key = prefix,
                                    !.recursive = recursive, !.fault = f,
                                    !.after = lastMut, !.err = r.err, !.list = r.list,
                                    !.requests = r.n, !.failed = at,
                                    !.token = g.token, !.sent = g.sent,
                                    !.cred = Cred, !.at = now]
    /\ UNCHANGED <<vault, now, revision, calls, written, lastMut>>

Unlock(p, key, f, lo) ==
    /\ calls[p].pc = "idle"
    /\ LET g == GetTok(lo)
           r == BackendDelete(g.token, vaultMetadataPath(LockKey(key)), f)
       IN /\ Auth(g)
          /\ vault' = r.vault
          /\ last' = [Called(p, "Unlock", key, f, g) EXCEPT !.err = UnlockResult(r.resp)]
          /\ IF Accepted(r.resp)
                THEN /\ written' = NoteLock(key, "unlocked")
                     /\ lastMut' = [NoMut EXCEPT !.op = "Unlock", !.key = key]
                ELSE UNCHANGED <<written, lastMut>>
          /\ calls' = IF calls[p].got # None /\ calls[p].got[1].key = key
                         THEN Done(p, None) ELSE calls
    /\ UNCHANGED <<now, revision>>

\* logout, with the answer f of the backend to the revoke request and the
\* outcome lo of the login its token lookup may make.
Logout(p, f, lo) ==
    /\ calls[p].pc = "idle"
    /\ LET o == logout(Token, approleResponse, approleTokenExpiration, now, lo,
                       TokenNames[logins + 1], f)
           given == IF o.tok = None THEN issued
                    ELSE issued \cup {[token |-> o.tok[1],
                                       expires |-> now + LeaseDuration]}
       IN /\ o.tok # None => logins < MaxLogins
          /\ approleResponse' = o.resp
          /\ approleTokenExpiration' = o.exp
          /\ issued' = IF o.revoked THEN {i \in given : i.token # o.token} ELSE given
          /\ logins' = IF o.tok = None THEN logins ELSE logins + 1
          /\ header' = IF o.requests = 0 THEN header ELSE o.token
          /\ last' = [NoCall EXCEPT !.proc = p, !.op = "logout", !.fault = f,
                                    !.err = o.err, !.token = o.token, !.sent = o.sent,
                                    !.issued = o.tok, !.cred = Cred, !.at = now,
                                    !.requests = o.requests, !.revoked = o.revoked]
    /\ UNCHANGED <<vault, now, Token, revision, calls, written, lastMut>>

\* Lock, on entry: nothing is sent yet.
LockCall(p, key, ctx) ==
    /\ calls[p].pc = "idle"
    /\ calls' = [calls EXCEPT ![p] = [@ EXCEPT !.pc = "read", !.key = key,
                                               !.ctx = ctx, !.after = lastMut]]
    /\ last' = [NoCall EXCEPT !.proc = p, !.op = "Lock()", !.key = key,
                              !.prior = written[key], !.after = lastMut]
    /\ UNCHANGED <<vault, now, authVars, revision, written, lastMut>>

\* Lock returns err to its caller.
Returned(p, f, err, c, g) ==
    [NoCall EXCEPT !.proc = p, !.op = "Lock", !.key = c.key, !.fault = f,
                   !.err = err, !.polls = c.polls, !.slept = c.slept,
                   !.first = c.first, !.stale = c.stale, !.seen = c.seen,
                   !.ctx = IF c.ctx = "cancelled" /\ c.cancelledAt = 0
                           THEN "cancelled at call"
                           ELSE IF c.ctx = "cancelled" /\ c.cancelledIn = "wait"
                           THEN "cancelled in wait" ELSE c.ctx,
                   !.changed = c.changed, !.over = LockState(c.key), !.prior = written[c.key], !.after = c.after,
                   !.token = g.token, !.sent = g.sent, !.cred = Cred]

\* The top of the loop: the read of <key>.lock and the branch taken on it.
LockRead(p, f, lo) ==
    /\ calls[p].pc = "read"
    /\ LET g == GetTok(lo)
           resp == BackendGet(g.token, vaultDataPath(LockKey(calls[p].key)), f)
           r == LockReadResult(resp, now)
           c == [calls[p] EXCEPT !.first = IF @ = "none" THEN LockState(calls[p].key)
                                           ELSE @,
                                 !.seen = SeenBy(resp, now)]
       IN /\ Auth(g)
          /\ IF r.next = "return"
                THEN /\ calls' = Done(p, c.got)
                     /\ last' = Returned(p, f, r.err, c, g)
             ELSE IF r.next = "break"
                THEN /\ calls' = [calls EXCEPT ![p] = [c EXCEPT !.pc = "write"]]
                     /\ UNCHANGED last
             ELSE IF r.next = "stale"
                THEN /\ calls' = [calls EXCEPT ![p] =
                                     [c EXCEPT !.pc = "unlock",
                                               !.stale = DecodeLock(resp.secret)]]
                     /\ UNCHANGED last
             ELSE /\ calls' = [calls EXCEPT ![p] =
                                  [c EXCEPT !.pc = "wait", !.polls = 1,
                                            !.wake = now + LockPollingInterval]]
                  /\ UNCHANGED last
    /\ UNCHANGED <<vault, now, revision, written, lastMut>>

\* The expired lock is removed with Unlock; its error ends the call.
LockUnlockStale(p, f, lo) ==
    /\ calls[p].pc = "unlock"
    /\ LET g == GetTok(lo)
           r == BackendDelete(g.token, vaultMetadataPath(LockKey(calls[p].key)), f)
           c == [calls[p] EXCEPT !.changed = @ \/ Accepted(r.resp)]
           err == UnlockResult(r.resp)
           got == IF c.got # None /\ c.got[1].key = c.key THEN None ELSE c.got
       IN /\ Auth(g)
          /\ vault' = r.vault
          /\ IF err # Nil
                THEN /\ calls' = Done(p, got)
                     /\ last' = Returned(p, f, err, c, g)
                ELSE /\ calls' = [calls EXCEPT ![p] = [c EXCEPT !.pc = "write",
                                                               !.got = got]]
                     /\ UNCHANGED last
          /\ IF Accepted(r.resp)
                THEN /\ written' = NoteLock(c.key, "unlocked")
                     /\ lastMut' = [NoMut EXCEPT !.op = "Unlock", !.key = c.key]
                ELSE UNCHANGED <<written, lastMut>>
    /\ UNCHANGED <<now, revision>>

LockWakeNever(p) ==
    /\ calls[p].pc = "wait"
    /\ calls[p].ctx = "done"
    /\ calls' = [calls EXCEPT ![p].pc = "read", ![p].slept = 1]
    /\ UNCHANGED <<vault, now, authVars, revision, last, written, lastMut>>

LockWakeAnyway(p) ==
    /\ calls[p].pc = "wait"
    /\ now >= calls[p].wake
    /\ calls' = [calls EXCEPT ![p].pc = "read", ![p].slept = 1]
    /\ UNCHANGED <<vault, now, authVars, revision, last, written, lastMut>>

\* select: the polling interval has elapsed, and the context was not done
\* before it had
LockWake(p) ==
    /\ calls[p].pc = "wait"
    /\ now >= calls[p].wake
    /\ calls[p].ctx = "live" \/ calls[p].cancelledAt >= calls[p].wake
    /\ calls' = [calls EXCEPT ![p].pc = "read", ![p].slept = 1]
    /\ UNCHANGED <<vault, now, authVars, revision, last, written, lastMut>>

LockCancelledNil(p) ==
    /\ calls[p].pc = "wait"
    /\ calls[p].ctx = "cancelled"
    /\ calls' = Done(p, calls[p].got)
    /\ last' = Returned(p, "ok", Nil, calls[p], [token |-> "", sent |-> FALSE])
    /\ UNCHANGED <<vault, now, authVars, revision, written, lastMut>>

\* select: the context is done
LockCancelled(p) ==
    /\ calls[p].pc = "wait"
    /\ calls[p].ctx = "cancelled"
    /\ calls' = Done(p, calls[p].got)
    /\ last' = Returned(p, "ok", "context canceled", calls[p],
                        [token |-> "", sent |-> FALSE])
    /\ UNCHANGED <<vault, now, authVars, revision, written, lastMut>>

LockWriteIfFree(p, f, lo) ==
    /\ calls[p].pc = "write"
    /\ LET g == GetTok(lo)
           w == BackendPost(g.token, vaultDataPath(LockKey(calls[p].key)),
                            EncodeSecret(<<>>, Some(LockExpiration(now))), f)
           held == LockState(calls[p].key) = "HELD-FRESH"
           r == IF held THEN [vault |-> vault, resp |-> Refused("", "err1")[1]] ELSE w
           c == [calls[p] EXCEPT !.changed = @ \/ Accepted(r.resp)]
           err == LockWriteResult(r.resp)
       IN /\ Auth(g)
          /\ vault' = r.vault
          /\ calls' = Done(p, IF err = Nil
                              THEN Some([key |-> c.key, exp |-> LockExpiration(now),
                                         seen |-> c.seen])
                              ELSE c.got)
          /\ last' = Returned(p, f, err, c, g)
          /\ IF Accepted(r.resp)
                THEN /\ written' = NoteLock(c.key, "locked")
                     /\ lastMut' = [NoMut EXCEPT !.op = "Lock", !.key = c.key,
                                                  !.first = c.first]
                ELSE UNCHANGED <<written, lastMut>>
    /\ UNCHANGED <<now, revision>>

LockWriteUnlessCancelled(p, f, lo) ==
    /\ calls[p].pc = "write"
    /\ calls[p].ctx = "cancelled"
    /\ calls' = Done(p, calls[p].got)
    /\ last' = Returned(p, f, "context canceled", calls[p],
                        [token |-> "", sent |-> FALSE])
    /\ UNCHANGED <<vault, now, authVars, revision, written, lastMut>>

\* Below the loop: the new lock is written.
LockWrite(p, f, lo) ==
    /\ calls[p].pc = "write"
    /\ LET g == GetTok(lo)
           r == BackendPost(g.token, vaultDataPath(LockKey(calls[p].key)),
                            EncodeSecret(<<>>, Some(LockExpiration(now))), f)
           c == [calls[p] EXCEPT !.changed = @ \/ Accepted(r.resp)]
           err == LockWriteResult(r.resp)
       IN /\ Auth(g)
          /\ vault' = r.vault
          /\ calls' = Done(p, IF err = Nil
                              THEN Some([key |-> c.key, exp |-> LockExpiration(now),
                                         seen |-> c.seen])
                              ELSE c.got)
          /\ last' = Returned(p, f, err, c, g)
          /\ IF Accepted(r.resp)
                THEN /\ written' = NoteLock(c.key, "locked")
                     /\ lastMut' = [NoMut EXCEPT !.op = "Lock", !.key = c.key,
                                                  !.first = c.first]
                ELSE UNCHANGED <<written, lastMut>>
    /\ UNCHANGED <<now, revision>>

\* The caller cancels the context of the Lock call it is in.
CtxCancel(p) ==
    /\ calls[p].pc # "idle"
    /\ calls[p].ctx = "live"
    /\ calls' = [calls EXCEPT ![p].ctx = "cancelled", ![p].cancelledAt = now,
                              ![p].cancelledIn = IF calls[p].pc = "wait" THEN "wait"
                                                 ELSE "loop"]
    /\ UNCHANGED <<vault, now, authVars, revision, last, written, lastMut>>

Tick ==
    /\ now < MaxTime
    /\ now' = now + 1
    /\ UNCHANGED <<vault, authVars, revision, calls, last, written, lastMut>>

(***************************************************************************)
(* One caller with one thread of control, a backend that answers every     *)
(* request, the static token of the test suite.                            *)
(***************************************************************************)
DoStore == \E k \in Keys, v \in Payloads : Store(1, k, v, "ok", "ok")
DoLoad == \E k \in Keys : Load(1, k, "ok", "ok")
DoDelete == \E k \in Keys : Delete(1, k, "ok", "ok")
DoExists == \E k \in Keys : Exists(1, k, "ok", "ok")
DoStat == \E k \in Keys : Stat(1, k, "ok", "ok")
DoUnlock == \E k \in Keys : Unlock(1, k, "ok", "ok")
DoLockCall == \E k \in Keys : LockCall(1, k, "live")
DoLockRead == LockRead(1, "ok", "ok")
DoLockUnlockStale == LockUnlockStale(1, "ok", "ok")
DoLockWake == LockWake(1)
DoLockWrite == LockWrite(1, "ok", "ok")

\* Spec: the operations on values.
Next ==
    \/ DoStore
    \/ DoLoad
    \/ DoDelete
    \/ DoExists
    \/ DoStat
    \/ Tick

Spec == Init /\ [][Next]_vars

\* SpecList: listings of a tree of keys, by either revision of List.
DoStoreTree == \E k \in TreeKeys : Store(1, k, <<1>>, "ok", "ok")
DoDeleteTree == \E k \in TreeKeys : Delete(1, k, "ok", "ok")
DoList == \E prefix \in Prefixes, recursive \in BOOLEAN : List(1, prefix, recursive, "ok", 0, "ok")

InitList == InitCommon /\ Token = StaticToken /\ revision \in {1, 2}

NextList ==
    \/ DoStoreTree
    \/ DoDeleteTree
    \/ DoList

SpecList == InitList /\ [][NextList]_vars

(***************************************************************************)
(* SpecListers: one process lists the tree recursively while another       *)
(* deletes keys of it.  The backend requests of one List call are sent one  *)
(* after the other, so a Delete may come between the listing of a prefix   *)
(* and the listing of a group below it: the loop of the outermost call     *)
(* runs one entry per step.                                                *)
(***************************************************************************)
ListResult(p, prefix, top, r) ==
    [NoCall EXCEPT !.proc = p, !.op = "List", !.key = prefix, !.recursive = TRUE,
                   !.after = lastMut, !.err = r.err, !.list = r.list, !.top = top,
                   !.token = header', !.cred = Cred, !.at = now]

\* The listing of the prefix, down to the loop
ListTop(p, prefix) ==
    /\ calls[p].pc = "idle"
    /\ LET g == GetTok("ok")
           resp == BackendList(g.token, vaultMetadataPath(prefix), "ok")
       IN /\ Auth(g)
          /\ IF resp.err # Nil
                THEN /\ last' = ListResult(p, prefix, <<>>, [list |-> <<>>, err |-> resp.err])
                     /\ UNCHANGED calls
             ELSE IF resp.keys = <<>>
                THEN /\ last' = ListResult(p, prefix, <<>>, ListReturn(<<>>))
                     /\ UNCHANGED calls
             ELSE /\ calls' = [calls EXCEPT ![p] = [@ EXCEPT !.pc = "list", !.key = prefix,
                                                             !.entries = resp.keys,
                                                             !.top = resp.keys,
                                                             !.items = <<>>]]
                  /\ UNCHANGED last
    /\ UNCHANGED <<vault, now, revision, written, lastMut>>

\* One turn of the loop, with the recursive call for a group, and the return
\* after the last entry
ListVisit(p) ==
    /\ calls[p].pc = "list"
    /\ LET c == calls[p]
           entry == Head(c.entries)
           path == EntryPath(c.key, entry)
           group == HasSuffix(entry, "/")
           g == GetTok("ok")
           sub == IF group THEN ListCall(g.token, path, TRUE, "ok", 0, 0)
                  ELSE [list |-> <<>>, err |-> Nil, n |-> 0]
           items == Kept(c.items, path) \o sub.list
       IN /\ IF group THEN Auth(g) ELSE UNCHANGED authVars
          /\ IF sub.err # Nil
                THEN /\ last' = ListResult(p, c.key, c.top, [list |-> <<>>, err |-> sub.err])
                     /\ calls' = Done(p, c.got)
             ELSE IF Tail(c.entries) = <<>>
                THEN /\ last' = ListResult(p, c.key, c.top, ListReturn(items))
                     /\ calls' = Done(p, c.got)
             ELSE /\ calls' = [calls EXCEPT ![p].entries = Tail(c.entries),
                                            ![p].items = items]
                  /\ UNCHANGED last
    /\ UNCHANGED <<vault, now, revision, written, lastMut>>

NextListers ==
    \/ DoStoreTree
    \/ \E k \in TreeKeys : Delete(2, k, "ok", "ok")
    \/ \E prefix \in {<<>>, <<"d", "/">>} : ListTop(1, prefix)
    \/ ListVisit(1)

SpecListers == InitList /\ [][NextListers]_vars

\* SpecLock: the operations on locks.
NextLock ==
    \/ DoLockCall
    \/ DoLockRead
    \/ DoLockUnlockStale
    \/ DoLockWake
    \/ DoLockWrite
    \/ DoUnlock
    \/ Tick

SpecLock == Init /\ [][NextLock]_vars

(***************************************************************************)
(* SpecWaiters: several callers want the lock of one key and none of them  *)
(* ever calls Unlock.  The backend answers every request, no context is    *)
(* cancelled.  While a caller can take a step of Lock, a step of Lock is   *)
(* taken in the end, and time goes on for as long as a caller sleeps.      *)
(***************************************************************************)
TheKey == <<"a">>

\* No caller is asleep any more at this time when calls start by MaxTime: each
\* of the other callers has seen one lock taken after MaxTime expire.
Horizon == MaxTime + (Cardinality(Procs) - 1) * (LockTimeout + 1)

Asleep == \E p \in Procs : calls[p].pc = "wait" /\ now < calls[p].wake

\* Time goes on: up to MaxTime by itself, beyond it while a caller sleeps.
TickAsleep ==
    /\ now < MaxTime \/ Asleep
    /\ now < Horizon
    /\ now' = now + 1
    /\ UNCHANGED <<vault, authVars, revision, calls, last, written, lastMut>>

LockStep(p) ==
    \/ LockRead(p, "ok", "ok")
    \/ LockUnlockStale(p, "ok", "ok")
    \/ LockWake(p)
    \/ LockWrite(p, "ok", "ok")

\* Caller 1 takes the lock; the others call Lock once it has it, by MaxTime,
\* and until they have the lock themselves.
WaitersLockCall ==
    \E p \in Procs :
        /\ now <= MaxTime
        /\ calls[p].got = None
        /\ p # 1 => calls[1].got # None
        /\ LockCall(p, TheKey, "live")
WaitersLockStep == \E p \in Procs : LockStep(p)

NextWaiters ==
    \/ WaitersLockCall
    \/ WaitersLockStep
    \/ TickAsleep

SpecWaiters ==
    /\ Init
    /\ [][NextWaiters]_vars
    /\ WF_vars(WaitersLockStep)
    /\ WF_vars(TickAsleep)

(***************************************************************************)
(* SpecCallers: two callers lock and unlock one key, each with a context   *)
(* that is live or already cancelled at the call and that can be cancelled *)
(* during it.  The backend answers every request.                          *)
(***************************************************************************)
Callers == {1, 2}

\* A caller calls Lock when it has no lock, and Unlock when it has one.
CallersLockCall ==
    \E p \in Callers, ctx \in {"live", "cancelled"} :
        calls[p].got = None /\ LockCall(p, TheKey, ctx)
CallersLockStep == \E p \in Callers : LockStep(p)
CallersLockCancelled == \E p \in Callers : LockCancelled(p)
CallersCtxCancel == \E p \in Callers : CtxCancel(p)
CallersUnlock ==
    \E p \in Callers : calls[p].got # None /\ Unlock(p, TheKey, "ok", "ok")

NextCallers ==
    \/ CallersLockCall
    \/ CallersLockStep
    \/ CallersLockCancelled
    \/ CallersCtxCancel
    \/ CallersUnlock
    \/ Tick

SpecCallers == Init /\ [][NextCallers]_vars

(***************************************************************************)
(* SpecCancelled: one caller calls every operation, Lock with a context    *)
(* that is live or already cancelled, and may cancel the context of the    *)
(* Lock call it is in.  Store, Load, Delete, Exists, Stat and Unlock take  *)
(* no context (their parameter is _), and List hands its own to nothing    *)
(* but its recursive calls.                                                *)
(***************************************************************************)
CancelledLockCall == \E ctx \in {"live", "cancelled"} : LockCall(1, TheKey, ctx)

\* The operations that take no context, on the key that is locked.
CancelledOthers ==
    \/ Store(1, TheKey, <<1>>, "ok", "ok")
    \/ Load(1, TheKey, "ok", "ok")
    \/ Delete(1, TheKey, "ok", "ok")
    \/ Exists(1, TheKey, "ok", "ok")
    \/ Stat(1, TheKey, "ok", "ok")
    \/ List(1, <<>>, TRUE, "ok", 0, "ok")
    \/ Unlock(1, TheKey, "ok", "ok")

NextCancelled ==
    \/ CancelledLockCall
    \/ DoLockRead
    \/ DoLockUnlockStale
    \/ DoLockWake
    \/ DoLockWrite
    \/ LockCancelled(1)
    \/ CtxCancel(1)
    \/ CancelledOthers
    \/ Tick

SpecCancelled == Init /\ [][NextCancelled]_vars

\* SpecLockKeys: one caller locks and unlocks a key, and stores and deletes
\* values under the key string <key>.lock.
NextLockKeys ==
    \/ LockCall(1, TheKey, "live")
    \/ DoLockRead
    \/ DoLockUnlockStale
    \/ DoLockWake
    \/ DoLockWrite
    \/ Unlock(1, TheKey, "ok", "ok")
    \/ \E v \in Payloads : Store(1, LockKey(TheKey), v, "ok", "ok")
    \/ Load(1, LockKey(TheKey), "ok", "ok")
    \/ Delete(1, LockKey(TheKey), "ok", "ok")
    \/ Tick

SpecLockKeys == Init /\ [][NextLockKeys]_vars

\* SpecDestroyed: values are stored, read and deleted, and another client of
\* the backend destroys the latest version of a value: the backend sets the
\* destroyed flag of its metadata, which a read then reports.
Destroy ==
    /\ \E n \in DOMAIN vault :
          /\ ~vault[n].destroyed
          /\ vault' = [vault EXCEPT ![n].destroyed = TRUE]
    /\ UNCHANGED <<now, authVars, revision, calls, last, written, lastMut>>

NextDestroyed ==
    \/ DoStore
    \/ DoLoad
    \/ DoDelete
    \/ DoExists
    \/ DoStat
    \/ Destroy

SpecDestroyed == Init /\ [][NextDestroyed]_vars

(***************************************************************************)
(* SpecApprole: no static token; values are stored, read and deleted over  *)
(* a time longer than a lease, and a login succeeds, gets no answer or is   *)
(* refused, with or without an error string in the body.                   *)
(***************************************************************************)
InitApprole == InitCommon /\ Token = "" /\ revision = 2

LoginOutcomes == Faults

ApproleStore == \E k \in Keys, lo \in LoginOutcomes : Store(1, k, <<1>>, "ok", lo)
ApproleLoad == \E k \in Keys, lo \in LoginOutcomes : Load(1, k, "ok", lo)
ApproleDelete == \E k \in Keys, lo \in LoginOutcomes : Delete(1, k, "ok", lo)

NextApprole ==
    \/ ApproleStore
    \/ ApproleLoad
    \/ ApproleDelete
    \/ Tick

SpecApprole == InitApprole /\ [][NextApprole]_vars

(***************************************************************************)
(* SpecLogout: no static token; values are stored over a time longer than  *)
(* a lease, and the session is logged out.                                 *)
(***************************************************************************)
ApproleLogout == \E f \in Faults, lo \in LoginOutcomes : Logout(1, f, lo)

NextLogout ==
    \/ ApproleStore
    \/ ApproleLogout
    \/ Tick

SpecLogout == InitApprole /\ [][NextLogout]_vars

(***************************************************************************)
(* SpecThreads: two threads of control use one Storage that has no static  *)
(* token.  Nothing guards the two fields of the credential, so the steps   *)
(* of one thread's token lookup interleave with the other's: the read of   *)
(* the fields (taken as one instant), the login exchange with the first    *)
(* assignment of login, and the second assignment.                         *)
(***************************************************************************)
Threads == {1, 2}

\* getToken down to the call of login: the cached token is returned when it
\* is there and has not expired.
ThreadGetToken(p) ==
    /\ calls[p].pc = "idle"
    /\ LET cached == approleResponse # None
                     /\ ~approleTokenExpired(approleResponse, approleTokenExpiration, now)
       IN /\ calls' = [calls EXCEPT ![p].pc = IF cached THEN "idle" ELSE "exchange"]
          /\ last' = [NoCall EXCEPT !.proc = p, !.op = "getToken", !.cred = Cred,
                                    !.at = now, !.sent = ~cached,
                                    !.token = IF cached
                                              THEN approleResponse[1].ClientToken
                                              ELSE ""]
    /\ UNCHANGED <<vault, now, authVars, revision, written, lastMut>>

\* login, the exchange and s.approleResponse = result
ThreadLoginResponse(p) ==
    /\ calls[p].pc = "exchange"
    /\ logins < MaxLogins
    /\ LET l == login(approleResponse, approleTokenExpiration, now, "ok",
                      TokenNames[logins + 1])
       IN /\ approleResponse' = l.resp
          /\ issued' = issued \cup {[token |-> l.tok[1], expires |-> now + LeaseDuration]}
    /\ logins' = logins + 1
    /\ calls' = [calls EXCEPT ![p].pc = "assigned"]
    /\ UNCHANGED <<vault, now, Token, approleTokenExpiration, header, revision, last,
                   written, lastMut>>

\* login, s.approleTokenExpiration = &expiration, and the return of getToken
ThreadLoginExpiration(p) ==
    /\ calls[p].pc = "assigned"
    /\ approleTokenExpiration' = Some(now + LeaseDuration)
    /\ calls' = [calls EXCEPT ![p].pc = "idle",
                              ![p].logged = @ \cup {[resp |-> approleResponse,
                                                     exp |-> Some(now + LeaseDuration)]}]
    /\ UNCHANGED <<vault, now, Token, approleResponse, issued, logins, header, revision,
                   last, written, lastMut>>

ThreadsGetToken == \E p \in Threads : ThreadGetToken(p)
ThreadsLoginResponse == \E p \in Threads : ThreadLoginResponse(p)
ThreadsLoginExpiration == \E p \in Threads : ThreadLoginExpiration(p)

NextThreads ==
    \/ ThreadsGetToken
    \/ ThreadsLoginResponse
    \/ ThreadsLoginExpiration
    \/ Tick

SpecThreads == InitApprole /\ [][NextThreads]_vars

(***************************************************************************)
(* SpecShared: two threads of control read a value through one Storage     *)
(* that has no static token.  s.client.SetToken(s.getToken()).Get(...)     *)
(* sets the header of the one client and then sends the request, which     *)
(* takes the header the client has when it is sent; a thread is at         *)
(* "request" between the two, and looked is the token its lookup returned. *)
(***************************************************************************)
SharedSetToken ==
    \E p \in Threads, lo \in {"ok", "err1"} :
        /\ calls[p].pc = "idle"
        /\ LET g == GetTok(lo)
           IN /\ Auth(g)
              /\ calls' = [calls EXCEPT ![p].pc = "request", ![p].looked = g.token]
        /\ UNCHANGED <<vault, now, revision, last, written, lastMut>>

SharedGet ==
    \E p \in Threads :
        /\ calls[p].pc = "request"
        /\ LET r == LoadResult(BackendGet(header, vaultDataPath(TheKey), "ok"))
           IN last' = [NoCall EXCEPT !.proc = p, !.op = "Load", !.key = TheKey,
                                     !.err = r.err, !.bytes = r.bytes,
                                     !.token = header, !.looked = calls[p].looked,
                                     !.cred = Cred, !.at = now]
        /\ calls' = Done(p, calls[p].got)
        /\ UNCHANGED <<vault, now, authVars, revision, written, lastMut>>

NextShared ==
    \/ SharedSetToken
    \/ SharedGet
    \/ Tick

SpecShared == InitApprole /\ [][NextShared]_vars

(***************************************************************************)
(* SpecFaultyValues: one caller stores, deletes, reads and looks for       *)
(* values while the backend leaves requests unanswered or answers them     *)
(* with an error status.                                                   *)
(***************************************************************************)
FaultyStore == \E k \in Keys, v \in Payloads, f \in Faults : Store(1, k, v, f, "ok")
FaultyDelete == \E k \in Keys, f \in Faults : Delete(1, k, f, "ok")
FaultyLoad == \E k \in Keys, f \in Faults : Load(1, k, f, "ok")
FaultyExists == \E k \in Keys, f \in Faults : Exists(1, k, f, "ok")

NextFaultyValues ==
    \/ FaultyStore
    \/ FaultyDelete
    \/ FaultyLoad
    \/ FaultyExists

SpecFaultyValues == Init /\ [][NextFaultyValues]_vars

(***************************************************************************)
(* SpecFaultyLock: one caller locks and unlocks one key while the backend  *)
(* leaves requests unanswered or answers them with an error status.        *)
(***************************************************************************)
FaultyLockCall == LockCall(1, TheKey, "live")
FaultyLockRead == \E f \in Faults : LockRead(1, f, "ok")
FaultyLockUnlockStale == \E f \in Faults : LockUnlockStale(1, f, "ok")
FaultyLockWake == LockWake(1)
FaultyLockWrite == \E f \in Faults : LockWrite(1, f, "ok")
FaultyUnlock == \E f \in Faults : Unlock(1, TheKey, f, "ok")

NextFaultyLock ==
    \/ FaultyLockCall
    \/ FaultyLockRead
    \/ FaultyLockUnlockStale
    \/ FaultyLockWake
    \/ FaultyLockWrite
    \/ FaultyUnlock
    \/ Tick

SpecFaultyLock == Init /\ [][NextFaultyLock]_vars

\* SpecFaultyList: the tree of SpecList, listed from its root and from the
\* directory d/ while the backend leaves one of the list requests of a call
\* unanswered or answers it with an error status.
FaultyDoList ==
    \E prefix \in {<<>>, <<"d", "/">>}, recursive \in BOOLEAN, f \in Faults \ {"ok"},
       at \in 1..MaxRequests :
        List(1, prefix, recursive, f, at, "ok")

NextFaultyList ==
    \/ DoStoreTree
    \/ DoDeleteTree
    \/ FaultyDoList

SpecFaultyList == InitList /\ [][NextFaultyList]_vars

(***************************************************************************)
(* The properties of the operations on values.                             *)
(***************************************************************************)

\* C1: Load(k) returns, with no error, exactly the payload v of the most
\* recent Store(k, v) when v is not empty and no Delete(k) followed it.
C1_LoadReturnsLastStore ==
    (last.op = "Load" /\ written[last.key].state = "stored"
        /\ Len(written[last.key].value) > 0)
    => (last.err = Nil /\ last.bytes = written[last.key].value)

\* C2: Load, Stat and Delete of a key never stored or already deleted, and
\* Unlock of a key never locked or already unlocked, return fs.ErrNotExist;
\* Load returns no bytes and Stat the zero KeyInfo.
C2_NotFoundWhenAbsent ==
    /\ (last.op \in {"Load", "Stat", "Delete"}
            /\ last.prior.state \in {"never", "deleted"})
       => (last.err = ErrNotExist /\ last.bytes = <<>> /\ last.info = NoKeyInfo)
    /\ (last.op = "Unlock" /\ last.prior.lstate \in {"never", "unlocked"})
       => last.err = ErrNotExist

\* C3: Exists(k) is false before any Store(k, ...), true right after a
\* Store(k, v) of a non-empty v that the backend accepted, and false right
\* after a Delete(k) that the backend accepted.
C3_ExistsFollowsStoreAndDelete ==
    last.op = "Exists" =>
        /\ written[last.key].state = "never" => ~last.bool
        /\ (last.after.op = "Store" /\ last.after.key = last.key
                /\ Len(last.after.value) > 0) => last.bool
        /\ (last.after.op = "Delete" /\ last.after.key = last.key) => ~last.bool

\* C8: Stat(k) of a key that holds a value returns Key = k, IsTerminal = true,
\* Size = the length of the payload last stored under k, and Modified = the
\* time at which the backend created that value.
C8_StatDescribesLastStore ==
    (last.op = "Stat" /\ written[last.key].state = "stored")
    => /\ last.err = Nil
       /\ last.info = [Key |-> last.key, IsTerminal |-> TRUE,
                       Size |-> Len(written[last.key].value),
                       Modified |-> written[last.key].time]

(***************************************************************************)
(* The properties of List.  What the backend holds below a prefix, told    *)
(* without List: the entries one level below it, and its leaves in         *)
(* depth-first order, as logical keys.                                     *)
(***************************************************************************)
EntriesBelow(prefix) == DirEntries(ListDir(vaultMetadataPath(prefix)))

KeyOfName(name) == SubSeq(name, Len(PathPrefix) + 2, Len(name))

RECURSIVE LeavesOf(_), LeavesOfEntries(_, _)
LeavesOf(dir) == LeavesOfEntries(dir, DirEntries(dir))

LeavesOfEntries(dir, entries) ==
    IF entries = <<>> THEN <<>>
    ELSE (IF HasSuffix(Head(entries), "/") THEN LeavesOf(dir \o Head(entries))
          ELSE <<KeyOfName(dir \o Head(entries))>>)
         \o LeavesOfEntries(dir, Tail(entries))

LeavesBelow(prefix) == LeavesOf(ListDir(vaultMetadataPath(prefix)))

IsStored(key) == SecretName(vaultDataPath(key)) \in DOMAIN vault

\* C4: List(prefix, false) returns one path for each entry of the backend's
\* listing that does not end in "/", ending in that entry, and no path for
\* an entry that ends in "/".
C4_ShallowListHasNoMarkers ==
    (last.op = "List" /\ ~last.recursive /\ last.err = Nil)
    => /\ \A i \in 1..Len(last.list) : ~HasSuffix(last.list[i], "/")
       /\ \A e \in {EntriesBelow(last.key)[i] : i \in 1..Len(EntriesBelow(last.key))} :
            ~HasSuffix(e, "/")
            => \E i \in 1..Len(last.list) :
                  /\ Len(last.list[i]) >= Len(e)
                  /\ SubSeq(last.list[i], Len(last.list[i]) - Len(e) + 1,
                            Len(last.list[i])) = e

\* C5: List(prefix, true) of a prefix with leaves below it returns those
\* leaves, each once, no group marker among them, in depth-first order.
C5_RecursiveListIsDepthFirst ==
    (last.op = "List" /\ last.recursive /\ LeavesBelow(last.key) # <<>>)
    => (last.err = Nil /\ last.list = LeavesBelow(last.key))

\* C6: every path List(prefix, _) returns begins with prefix and is a key
\* that Load finds; List("", _) returns root keys without a leading "/".
C6_ListedPathsAreKeys ==
    (last.op = "List" /\ last.err = Nil)
    => \A i \in 1..Len(last.list) :
          /\ HasPrefix(last.list[i], last.key)
          /\ IsStored(last.list[i])
          /\ last.list[i][1] # "/"

\* C7: List(prefix, _) of a prefix for which the backend lists no entry
\* returns fs.ErrNotExist and an empty list.
C7_EmptyListingIsNotFound ==
    (last.op = "List" /\ EntriesBelow(last.key) = <<>>)
    => (last.err = ErrNotExist /\ last.list = <<>>)

C7_Witness ==
    /\ last.op = "List"
    /\ last.key # <<>>
    /\ EntriesBelow(last.key) = <<>>
    /\ vault # <<>>
    /\ last.err = ErrNotExist
    /\ last.list = <<>>

(***************************************************************************)
(* The properties of the operations on locks.                              *)
(***************************************************************************)
LockRecordOf(key) == vault[SecretName(vaultDataPath(LockKey(key)))]

HasLockRecord(key) == SecretName(vaultDataPath(LockKey(key))) \in DOMAIN vault

\* C9: Lock(k) that finds k FREE returns nil without having waited, and has
\* written at <k>.lock a record that expires LockTimeout after the write; the
\* Unlock(k) that follows a Lock(k) returns nil and leaves no record.
C9_LockFreeThenUnlock ==
    /\ (last.op = "Lock" /\ last.first = "FREE")
       => /\ last.err = Nil
          /\ last.polls = 0
          /\ HasLockRecord(last.key)
          /\ LockRecordOf(last.key).secret.lock
                = Some(LockRecordOf(last.key).created_time + LockTimeout)
    /\ (last.op = "Unlock" /\ last.after.op = "Lock" /\ last.after.key = last.key)
       => /\ last.err = Nil
          /\ ~HasLockRecord(last.key)
          /\ LockState(last.key) = "FREE"

C9_Witness ==
    /\ last.op = "Unlock"
    /\ last.after.op = "Lock"
    /\ last.after.key = last.key
    /\ last.after.first = "FREE"
    /\ last.err = Nil
    /\ LockState(last.key) = "FREE"

\* C10: a Lock(k) made after a Lock(k) with no Unlock between them returns
\* nil: it found the record of the first call, waited if that record was not
\* expired, deleted it once it was, and wrote a record of its own after the
\* first one had expired.
C10_SecondLockReclaims ==
    (last.op = "Lock" /\ last.after.op = "Lock" /\ last.after.key = last.key)
    => /\ last.err = Nil
       /\ last.first \in {"HELD-FRESH", "HELD-EXPIRED"}
       /\ last.first = "HELD-FRESH" => last.polls > 0
       /\ last.stale # None
       /\ written[last.key].lstate = "locked"
       /\ HasLockRecord(last.key)
       /\ LockRecordOf(last.key).created_time > last.stale[1]
       /\ LockRecordOf(last.key).secret.lock
             = Some(LockRecordOf(last.key).created_time + LockTimeout)

C10_Witness ==
    /\ last.op = "Lock"
    /\ last.after.op = "Lock"
    /\ last.after.key = last.key
    /\ last.err = Nil
    /\ last.first = "HELD-FRESH"
    /\ last.polls > 0
    /\ last.stale # None
    /\ HasLockRecord(last.key)


(***************************************************************************)
(* The properties of Lock under several callers.                           *)
(***************************************************************************)

\* No caller of SpecWaiters is still asleep when the clock of the model ends.
HorizonNotReached == Asleep => now < Horizon

\* C11: when the holder of the lock of a key never calls Unlock, every Lock
\* call of another caller on that key returns in the end, however many
\* callers wait for the key at once (fair scheduling, time going on, a
\* backend that answers, no cancellation): while a call is under way, a time
\* comes when every call made so far has returned.
C11_WaitingLockReturns ==
    (\E p \in Procs : calls[p].pc # "idle") ~> (\A p \in Procs : calls[p].pc = "idle")

\* A caller that found the lock held and slept has got it, while another
\* caller that found it held is still waiting and nobody has unlocked.
C11_Witness ==
    /\ last.op = "Lock" /\ last.err = Nil
    /\ last.first = "HELD-FRESH" /\ last.slept > 0
    /\ \E q \in Procs \ {last.proc} :
           calls[q].pc = "wait" /\ calls[q].first = "HELD-FRESH"

\* C12: Lock called with a context that is already cancelled, on a key whose
\* LockRecord has not expired, returns the cancellation error of the context
\* without waiting out a polling interval and without writing or deleting a
\* LockRecord.
C12_CancelledLockReturnsAtOnce ==
    (last.op = "Lock" /\ last.ctx = "cancelled at call" /\ last.first = "HELD-FRESH")
    => (last.err = "context canceled" /\ last.slept = 0 /\ ~last.changed
        /\ last.seen = "fresh")

\* Such a call has returned while the record it found is still unexpired.
C12_Witness ==
    /\ last.op = "Lock" /\ last.ctx = "cancelled at call"
    /\ last.first = "HELD-FRESH" /\ last.err = "context canceled"
    /\ LockState(last.key) = "HELD-FRESH"

\* C13: nothing ties the write of a LockRecord to the read that found the
\* key FREE: the write of a caller succeeds and gives it the lock whatever
\* became of the record since its read, so two callers that both read FREE
\* both write and both hold the lock, unexpired and not unlocked, at once.
C13_WriteIgnoresTheRecord ==
    [][\A p \in Callers :
          (calls[p].pc = "write" /\ calls'[p].pc = "idle")
          => /\ last'.proc = p /\ last'.op = "Lock" /\ last'.err = Nil
             /\ calls'[p].got = Some([key |-> calls[p].key, exp |-> now + LockTimeout,
                                      seen |-> calls[p].seen])
             /\ vault'[SecretName(vaultDataPath(LockKey(calls[p].key)))].secret.lock
                   = Some(now + LockTimeout)]_vars

\* Two callers that both read the record absent have both come back from Lock
\* with no error; neither has called Unlock, neither lock has expired.
C13_Witness ==
    \E p, q \in Callers :
        /\ p # q
        /\ calls[p].got # None /\ calls[q].got # None
        /\ calls[p].got[1].key = calls[q].got[1].key
        /\ calls[p].got[1].seen = "absent" /\ calls[q].got[1].seen = "absent"
        /\ now <= calls[p].got[1].exp /\ now <= calls[q].got[1].exp
        /\ calls[p].pc = "idle" /\ calls[q].pc = "idle"

(***************************************************************************)
(* The properties of the token lookup.                                     *)
(***************************************************************************)

\* C14: with a static token configured, every token lookup of every operation
\* returns the static token and no login exchange is sent to the backend,
\* whatever a login would have brought.
C14_StaticTokenAlways ==
    /\ logins = 0 /\ issued = {}
    /\ approleResponse = None /\ approleTokenExpiration = None
    /\ last.op # "none" => (last.token = StaticToken /\ ~last.sent)
    /\ \A lo \in Faults :
           LET g == GetTok(lo) IN g.token = StaticToken /\ ~g.sent /\ g.tok = None

\* A value stored and read back under the static token, longer after the
\* start than a lease would have lasted.
C14_Witness ==
    /\ Token = StaticToken
    /\ last.op = "Load" /\ last.err = Nil /\ last.after.op = "Store"
    /\ last.token = StaticToken /\ ~last.sent
    /\ last.at > 1 + LeaseDuration

\* The credential that was cached when the latest operation looked the
\* token up was still good at that time.
CachedAndGood ==
    /\ last.cred.resp # None /\ last.cred.exp # None
    /\ ~(last.at > last.cred.exp[1])

CachedAndExpired ==
    /\ last.cred.resp # None /\ last.cred.exp # None
    /\ last.at > last.cred.exp[1]

\* C16: the operation that follows the expiration of the cached Credential
\* logs in, caches the new Credential in place of the old one, sends its
\* request with the new token and, the login having succeeded, meets no
\* authentication error.
C16_RenewedAfterExpiration ==
    (last.op # "none" /\ CachedAndExpired)
    => /\ last.sent
       /\ last.issued # None =>
             /\ last.token = last.issued[1]
             /\ last.token # last.cred.resp[1].ClientToken
             /\ Cred.resp[1].ClientToken = last.token
             /\ Cred.exp = Some(last.at + LeaseDuration)
             /\ last.err \in {Nil, ErrNotExist}
             /\ last.op = "Store" =>
                   (last.err = Nil /\ written[last.key].state = "stored")

\* A value stored under one token has been read under the next one.
C16_Witness ==
    /\ last.op = "Load" /\ CachedAndExpired /\ last.issued # None
    /\ last.err = Nil /\ Len(last.bytes) > 0
    /\ last.token # last.cred.resp[1].ClientToken

\* C17: a thread that reads the cached Credential while another thread
\* renews it reads a Credential that a login has cached whole, the old one or
\* the new one: never the token of one login with the expiration of another.
C17_CredentialReadWhole ==
    (last.op = "getToken" /\ last.cred.resp # None /\ last.cred.exp # None)
    => \E p \in Threads : last.cred \in calls[p].logged

(***************************************************************************)
(* The properties that hold of a backend that fails.                       *)
(***************************************************************************)

\* C18: Exists(k) is true only when the read of the backend succeeded and
\* brought a payload that is not empty: a request left unanswered, an error
\* status (404 as any other) and a read of an empty payload, as after
\* Store(k, empty), all give false.
C18_ExistsOnlyOnPayload ==
    last.op = "Exists" =>
        /\ last.bool <=> /\ last.fault = "ok"
                         /\ IsStored(last.key)
                         /\ vault[SecretName(vaultDataPath(last.key))].secret.data # None
        /\ last.fault # "ok" => ~last.bool
        /\ ~IsStored(last.key) => ~last.bool
        /\ (last.after.op = "Store" /\ last.after.key = last.key
               /\ last.after.value = <<>>) => ~last.bool

\* Exists has said false of a key whose empty value the backend holds.
C18_Witness ==
    /\ last.op = "Exists" /\ ~last.bool /\ last.fault = "ok"
    /\ last.after.op = "Store" /\ last.after.key = last.key /\ last.after.value = <<>>
    /\ IsStored(last.key)

\* C19: Lock(k) never writes a LockRecord while its latest read of <k>.lock
\* showed a record that has not expired: a call that finds k HELD-FRESH only
\* waits a polling interval and reads again, and it leaves the loop only
\* after a read that shows the record absent or expired.
C19_FreshLockOnlyWaits ==
    \A p \in Procs :
        /\ calls[p].seen = "fresh" => calls[p].pc \in {"wait", "read"}
        /\ calls[p].pc = "wait" => calls[p].seen = "fresh"
        /\ (calls[p].first = "HELD-FRESH" /\ calls[p].pc \in {"unlock", "write"})
           => calls[p].seen \in {"absent", "expired"}

\* C20: Lock(k) writes a LockRecord only after a read that showed the record
\* absent or expired: a read that failed, unanswered or answered with an
\* error status other than 404, never makes Lock write over a LockRecord
\* that has not expired.
C20_FailedReadNeverOverwrites ==
    (last.op = "Lock" /\ last.changed /\ last.seen = "error")
    => last.over # "HELD-FRESH"

\* C21: Store(k, v) and Lock(k) return nil only when the backend accepted
\* the write: a write answered with an error status gives the caller an
\* error, also when the body of the answer lists no error string.
C21_RejectedWriteIsAnError ==
    (last.op \in {"Store", "Lock"} /\ last.fault \in {"err0", "err1"})
    => last.err # Nil

\* C22: Load and Delete give the caller an error when the backend answers
\* with an error status other than 404: Load never returns (empty, nil) and
\* Delete never returns nil for a request the backend rejected.
C22_RejectedReadIsAnError ==
    (last.op \in {"Load", "Delete"} /\ last.fault \in {"err0", "err1"})
    => last.err # Nil

\* The latest call was a List, one of whose backend list requests failed.
ListRequestFailed ==
    /\ last.op = "List"
    /\ last.fault # "ok"
    /\ last.requests >= last.failed

\* C23: in a recursive List, the first backend list request that fails, at
\* any depth, makes the whole call return the error of that request with an
\* empty list, and no backend list request is sent after it.
C23_FailedListAborts ==
    (ListRequestFailed /\ last.recursive)
    => /\ last.list = <<>>
       /\ last.requests = last.failed
       /\ last.err # Nil
       /\ last.fault = "transport" => last.err = TransportErr
       /\ last.fault = "err1" => last.err = Join(FaultErrors("err1"))

\* C24: a list request answered with an error status other than 404 makes
\* List return a backend error carrying the joined messages of the backend,
\* never the not-found sentinel.
C24_RejectedListIsNotNotFound ==
    (ListRequestFailed /\ last.fault \in {"err0", "err1"})
    => /\ last.err \notin {Nil, ErrNotExist}
       /\ last.fault = "err1" => last.err = Join(FaultErrors("err1"))

\* C25: once the context of a Lock call is cancelled while the call waits
\* out a polling interval that has not elapsed, the only step the call takes
\* is its return of the cancellation error: it reads the LockRecord no more,
\* sends nothing, and neither writes nor deletes a LockRecord.
C25_CancelledWaitEndsTheCall ==
    [][\A p \in Callers :
          (/\ calls[p].pc = "wait"
           /\ calls[p].cancelledIn = "wait"
           /\ calls[p].cancelledAt < calls[p].wake)
          => \/ calls'[p] = calls[p]
             \/ /\ calls'[p].pc = "idle"
                /\ last'.proc = p /\ last'.op = "Lock"
                /\ last'.err = "context canceled"
                /\ last'.changed = calls[p].changed
                /\ last'.seen = calls[p].seen
                /\ ~last'.sent
                /\ vault' = vault]_vars

\* A call cancelled in its wait has returned the cancellation error, and
\* the record it waited for is still there, unexpired.
C25_Witness ==
    /\ last.op = "Lock" /\ last.ctx = "cancelled in wait"
    /\ last.err = "context canceled" /\ last.polls = 1 /\ ~last.changed
    /\ calls[last.proc].pc = "idle"
    /\ LockState(last.key) = "HELD-FRESH"

\* C26: only the polling wait of Lock returns the cancellation error.  Lock
\* called with a context that is already cancelled, on a key it finds FREE
\* or HELD-EXPIRED, writes the LockRecord and returns success; Store, Load,
\* Delete, Exists, List, Stat and Unlock never return the cancellation error.
C26_CancellationOnlyInTheWait ==
    /\ last.err = "context canceled" => (last.op = "Lock" /\ last.polls = 1)
    /\ (last.op = "Lock" /\ last.ctx = "cancelled at call"
          /\ last.first \in {"FREE", "HELD-EXPIRED"})
       => (last.err = Nil /\ last.changed /\ last.slept = 0
           /\ LockState(last.key) # "FREE")
    /\ last.op \in {"Store", "Load", "Delete", "Exists", "List", "Stat", "Unlock"}
       => last.err # "context canceled"

\* A Lock call with a cancelled context has replaced an expired record.
C26_Witness ==
    /\ last.op = "Lock" /\ last.ctx = "cancelled at call"
    /\ last.first = "HELD-EXPIRED" /\ last.stale # None
    /\ last.err = Nil /\ last.changed
    /\ LockState(last.key) = "HELD-FRESH"

\* The latest operation sent a login exchange and the backend issued no
\* token for it.
LoginFailed == last.op # "none" /\ last.sent /\ last.issued = None

\* C27: when the login exchange of a token lookup fails, by a transport
\* error or an error status, the lookup returns the empty token, the cached
\* Credential and its expiration stay as they were before it, and the
\* request of the operation carries the empty token.
C27_FailedLoginGivesEmptyToken ==
    LoginFailed => (last.token = "" /\ Cred = last.cred)

\* C28: logout sends no request and leaves the session as it is when no
\* Credential is cached; when one is cached and the backend accepts the
\* revoke request, the cached token and its expiration are cleared, so that
\* the next token lookup logs in; when the revoke request fails, the cached
\* Credential is the one that was cached before the logout.
C28_LogoutClearsOnlyOnSuccess ==
    last.op = "logout"
    => /\ last.cred.resp = None
          => (last.requests = 0 /\ ~last.sent /\ last.err = Nil /\ Cred = last.cred)
       /\ (last.cred.resp # None /\ last.revoked)
          => (Cred = NoCred /\ GetTok("ok").sent)
       /\ (last.cred.resp # None /\ ~last.revoked)
          => Cred = last.cred

\* C29: every backend request of an operation comes after a token lookup of
\* that operation and carries the token that lookup returned.
C29_RequestCarriesItsLookup ==
    last.op = "Load" => last.token = last.looked

\* What Load, Exists and Stat of key return while the backend holds v and
\* answers every request.
ReadsOf(v, key) ==
    LET n == SecretName(vaultDataPath(key))
        resp == IF n \in DOMAIN v
                    THEN Response(Nil, 200, v[n].secret, v[n].created_time, <<>>, <<>>)
                    ELSE NotFound
    IN [load |-> LoadResult(resp), exists |-> ExistsResult(resp),
        stat |-> StatResult(key, resp)]

\* C30: distinct logical keys are independent, also when they differ only in
\* letter case: a Store or a Delete of one key string leaves what Load,
\* Exists and Stat return for every other key string as it was.
C30_KeysAreIndependent ==
    [][\A k2 \in Keys :
          (last'.op \in {"Store", "Delete"} /\ k2 # last'.key)
          => ReadsOf(vault', k2) = ReadsOf(vault, k2)]_vars

\* The LockRecord that guards key while the backend holds v: None, or the
\* expiration it carries.
LockRecordIn(v, key) ==
    LET n == SecretName(vaultDataPath(LockKey(key))) IN
    IF n \in DOMAIN v THEN v[n].secret.lock ELSE None

\* C31: only Lock and Unlock create, replace or destroy a LockRecord: no
\* Store and no Delete, of the key string <k>.lock either, changes the
\* LockRecord that guards k.
C31_OnlyLockTouchesTheRecord ==
    [][last'.op \in {"Store", "Delete"}
          => LockRecordIn(vault', TheKey) = LockRecordIn(vault, TheKey)]_vars

\* The backend holds a value under key and has destroyed it.
DestroyedIn(v, key) ==
    LET n == SecretName(vaultDataPath(key)) IN
    n \in DOMAIN v /\ v[n].destroyed

\* C32: a value whose metadata has the destroyed flag set is absent: Load and
\* Stat of its key return fs.ErrNotExist and Exists returns false, also when
\* the read is answered with a success status and the payload.
C32_DestroyedIsAbsent ==
    [][(last' # last /\ last'.op \in {"Load", "Stat", "Exists"}
            /\ DestroyedIn(vault, last'.key))
          => /\ last'.op \in {"Load", "Stat"} => last'.err = ErrNotExist
             /\ last'.op = "Exists" => ~last'.bool]_vars

\* C33: while the backend answers every request and no context is cancelled,
\* no Lock call returns an error, however the Lock and Unlock calls of the
\* callers interleave.
C33_LockNeverFailsWhenHealthy ==
    (last.op = "Lock" /\ last.ctx = "live" /\ last.fault = "ok") => last.err = Nil

\* C34: the delete by which a Lock call reclaims a stale lock removes only a
\* LockRecord that is expired when it is deleted, never an unexpired one
\* that the Lock of another caller wrote.
C34_ReclaimRemovesOnlyExpired ==
    [][\A p \in Callers :
          (calls[p].pc = "unlock" /\ calls'[p].pc # "unlock" /\ vault' # vault)
          => LockState(calls[p].key) = "HELD-EXPIRED"]_vars

\* C35: Lock and Unlock leave the values alone: no step of a Lock call and
\* no Unlock changes what Load, Exists and Stat return for the key they
\* lock, or for any other key.
C35_LockLeavesTheValue ==
    [][last'.op \in {"Lock()", "Lock", "Unlock"}
          => \A k \in Keys : ReadsOf(vault', k) = ReadsOf(vault, k)]_vars

\* The lock of a key has been taken while the key holds a value.
C35_Witness ==
    /\ last.op = "Lock" /\ last.err = Nil /\ last.changed
    /\ LockState(last.key) = "HELD-FRESH"
    /\ ReadsOf(vault, last.key).load.bytes = <<1>>

\* C36: List returns only keys that Store wrote: no listing holds the lock
\* key <k>.lock of a key whose lock is held.
C36_ListHidesLockKeys ==
    last.op = "List" => \A i \in 1..Len(last.list) : last.list[i] \notin LockKeys

\* The latest call is a recursive List whose listing of the prefix held a
\* leaf, an entry that is no group.
TopHasLeaf ==
    /\ last.op = "List" /\ last.recursive
    /\ \E i \in 1..Len(last.top) : ~HasSuffix(last.top[i], "/")

\* C37: a recursive List whose listing of the prefix returned a leaf does
\* not fail with fs.ErrNotExist, also when another process has deleted the
\* keys of a group between the listing of the prefix and that of the group.
C37_LeafAtTopIsNeverNotFound ==
    TopHasLeaf => last.err # ErrNotExist

\* The latest call is a non-recursive List whose backend listing holds
\* entries, every one of them a group marker.
OnlyGroupsListed ==
    /\ last.op = "List" /\ ~last.recursive /\ last.fault = "ok"
    /\ LET path == vaultMetadataPath(last.key)
           keys == ListedKeys(path)
       IN /\ Routed(path, "metadata")
          /\ keys # <<>>
          /\ \A i \in 1..Len(keys) : HasSuffix(keys[i], "/")

\* C38: a non-recursive List of a prefix whose backend listing holds only
\* group markers returns the empty list and no error.
C38_GroupsOnlyIsEmptyNotNotFound ==
    OnlyGroupsListed => (last.err = Nil /\ last.list = <<>>)

\* C39: a Logout sends no login exchange, also when the credential it holds
\* has expired.
C39_LogoutNeverLogsIn ==
    last.op = "logout" => ~last.sent

====
